---- MODULE Spec2Model ----
(***************************************************************************)
(* A model of the CHIP-8 interpreter of CHIP-8rs: the 4 KB Memory with its *)
(* font table (src/src/memory.rs) and the CHIP8 machine with its loader,   *)
(* opcode fetch, opcode dispatch and instruction handlers                  *)
(* (src/src/chip8.rs).  The Display (src/src/display/display.rs) has no    *)
(* operation besides its constructor and no handler touches it, so its     *)
(* all-zero screen is not carried in the state.                            *)
(***************************************************************************)
EXTENDS Integers, Sequences, FiniteSets, TLC

\* ------------------------------------------------------------- constants

\* memory.rs:3
MAX_MEM_SIZE == 4096

\* chip8.rs:5
STACK_SIZE == 16

\* chip8.rs:56, the address the loader starts at
PROGRAM_START == 512

\* memory.rs:19-36, the hexadecimal font (a 1-based sequence here)
SPRITES ==
  << 240, 144, 144, 144, 240,
      32,  96,  32,  32, 112,
     240,  16, 240, 128, 240,
     240,  16, 240,  16, 240,
     144, 144, 240,  16,  16,
     240, 128, 240,  16, 240,
     240, 128, 240, 144, 240,
     240,  16,  32,  64,  64,
     240, 144, 240, 144, 240,
     240, 144, 240,  16, 240,
     240, 144, 240, 144, 144,
     224, 144, 224, 144, 224,
     240, 128, 128, 128, 240,
     224, 144, 144, 144, 224,
     240, 128, 240, 128, 240,
     240, 128, 240, 128, 128 >>

\* ------------------------------------------------------------- bounds

\* longest short program image handed to load
MaxLen == 2
\* how many bytes past the end of memory the longest program image reaches
MaxOver == 1
\* operations performed on one machine in the memory-level specification
MaxOps == 2
\* returns executed in the stack specification
MaxReturns == 2

\* ------------------------------------------------------------- integer widths

U8(n) == n % 256
U16(n) == n % 65536

Min(S) == CHOOSE m \in S : \A k \in S : m <= k

\* bitwise operations on bytes, bit by bit
RECURSIVE BitOp(_, _, _, _)
BitOp(f, a, b, w) ==
  IF w = 0 THEN 0
  ELSE LET ba == a % 2
           bb == b % 2
           bit == CASE f = "or"  -> IF ba + bb >= 1 THEN 1 ELSE 0
                    [] f = "and" -> IF ba + bb = 2 THEN 1 ELSE 0
                    [] f = "xor" -> IF ba + bb = 1 THEN 1 ELSE 0
       IN bit + 2 * BitOp(f, a \div 2, b \div 2, w - 1)

BitOr(a, b) == BitOp("or", a, b, 16)
BitAnd(a, b) == BitOp("and", a, b, 16)
BitXor(a, b) == BitOp("xor", a, b, 16)

\* ------------------------------------------------------------- state

VARIABLES
  pc,               \* CHIP8.pc: u16
  sp,               \* CHIP8.sp: u8
  ix,               \* CHIP8.ix: u8
  keypad,           \* CHIP8.keypad: [u8; 16]
  stack,            \* CHIP8.stack: [u16; 16]
  vx,               \* CHIP8.vx: [u8; 16]
  pages,            \* CHIP8.memory.pages: [u8; 4096]
  delay_timer,      \* CHIP8.delay_timer: u8
  sound_timer,      \* CHIP8.sound_timer: u8
  overflow_checks,  \* build profile: TRUE when arithmetic overflow panics (debug)
  panicked,         \* TRUE once an operation has panicked
  last,             \* the last operation: its name, arguments and outcome
  pre,              \* the CPU fields as they were before the last operation
  nops              \* operations counted against the specification's bound

cpu == <<pc, sp, ix, keypad, stack, vx, delay_timer, sound_timer>>
vars == <<pc, sp, ix, keypad, stack, vx, pages, delay_timer, sound_timer,
          overflow_checks, panicked, last, pre, nops>>

Snapshot == [pc |-> pc, sp |-> sp, ix |-> ix, vx |-> vx, stack |-> stack]

\* the record kept of an operation: ok is FALSE for an Err result
Did(op, args, ok, val) == [args |-> args, op |-> op, ok |-> ok, val |-> val]

\* ------------------------------------------------------------- Memory

Memory_new_short_copy ==
  [a \in 0 .. MAX_MEM_SIZE - 1 |-> IF a < Len(SPRITES) - 1 THEN SPRITES[a + 1] ELSE 0]

\* Memory::new
Memory_new ==
  [a \in 0 .. MAX_MEM_SIZE - 1 |-> IF a < Len(SPRITES) THEN SPRITES[a + 1] ELSE 0]

address_overflow_off_by_one(address) == address > MAX_MEM_SIZE

\* the bounds check of Memory::write (line 55) and Memory::read (line 64)
address_overflow(address) == address > MAX_MEM_SIZE - 1

\* Memory::write: Err(AddressOverflow) is ok = FALSE.  A store past the end of
\* the array cannot happen in safe Rust; the model leaves the array as it is.
Memory_write(mem, address, val) ==
  IF address_overflow(address)
    THEN [ok |-> FALSE, pages |-> mem]
    ELSE [ok |-> TRUE,
          pages |-> IF address \in DOMAIN mem
                      THEN [mem EXCEPT ![address] = val] ELSE mem]

\* Memory::read: Err(AddressOverflow) is ok = FALSE
Memory_read(mem, address) ==
  IF address_overflow(address)
    THEN [ok |-> FALSE, val |-> 0]
    ELSE [ok |-> TRUE, val |-> IF address \in DOMAIN mem THEN mem[address] ELSE 0]

\* ------------------------------------------------------------- CHIP8

\* CHIP8::new: the fields of a freshly constructed machine
CHIP8_new ==
  [pc |-> 0, sp |-> 0, ix |-> 0,
   keypad |-> [k \in 0 .. 15 |-> 0],
   stack |-> [s \in 0 .. STACK_SIZE - 1 |-> 0],
   vx |-> [r \in 0 .. 15 |-> 0],
   pages |-> Memory_new,
   delay_timer |-> 0, sound_timer |-> 0]

load_iterations_stops_early(data) ==
  LET refused == {i \in 0 .. Len(data) - 1 :
                    \/ PROGRAM_START + i >= MAX_MEM_SIZE - 1
                    \/ PROGRAM_START + i < PROGRAM_START}
  IN IF refused = {} THEN Len(data) ELSE Min(refused)

\* CHIP8::load, the loop's exit: the number of iterations that run before the
\* loop ends, either at the end of data or at the first address the guard
\* of line 57 refuses (break)
load_iterations(data) ==
  LET refused == {i \in 0 .. Len(data) - 1 :
                    \/ PROGRAM_START + i > MAX_MEM_SIZE - 1
                    \/ PROGRAM_START + i < PROGRAM_START}
  IN IF refused = {} THEN Len(data) ELSE Min(refused)

load_wrapping(mem, data) ==
  [panicked |-> FALSE,
   pages |-> [a \in 0 .. MAX_MEM_SIZE - 1 |->
                LET i == (a + MAX_MEM_SIZE - PROGRAM_START) % MAX_MEM_SIZE
                IN IF i < Len(data) THEN data[i + 1] ELSE mem[a]]]

\* CHIP8::load: iteration i writes data[i] (data[i + 1] here) at 0x200 + i as u16.
\* The iterations write pairwise distinct addresses, none above 4095, so the
\* loop's result is given address by address; a write that returns Err panics
\* (line 64) and ends the loop there.
load(mem, data) ==
  LET n == load_iterations(data)
      failed == {i \in 0 .. n - 1 : address_overflow(U16(PROGRAM_START + i))}
      done == IF failed = {} THEN n ELSE Min(failed)
  IN [panicked |-> failed # {},
      pages |-> [a \in DOMAIN mem |->
                   IF a >= PROGRAM_START /\ a - PROGRAM_START < done
                     THEN data[a - PROGRAM_START + 1]
                     ELSE mem[a]]]

\* CHIP8::fetch_opcode: a failed read panics (lines 77, 81); pc + 1 is a u16
\* sum, which panics under overflow checks and wraps without them
fetch_opcode(mem, p) ==
  LET first == Memory_read(mem, p)
      second == Memory_read(mem, U16(p + 1))
  IN IF ~first.ok THEN [panicked |-> TRUE, val |-> 0]
     ELSE IF (p + 1 > 65535 /\ overflow_checks) \/ ~second.ok
       THEN [panicked |-> TRUE, val |-> 0]
     ELSE [panicked |-> FALSE,
           val |-> BitOr(U16(first.val * 256), second.val)]

\* ------------------------------------------------------------- inputs

\* addresses handed to Memory::write and Memory::read (u16)
Addrs == {513, 4095, 4096, 65535}
\* bytes written by Memory::write
WriteVals == {0, 171}
\* two programs; the short program images are their prefixes
Programs == {<<96, 5, 112, 3, 0, 0>>, <<18, 0, 0, 224, 0, 238>>}

\* a program image of len bytes b+1, b+2, ... (mod 256)
Ramp(len, b) == [i \in 1 .. len |-> (b + i) % 256]

\* the room for a program: addresses 0x200 .. 0xFFF
Room == MAX_MEM_SIZE - PROGRAM_START

\* the images handed to load: short ones, one that fills the room exactly and
\* ones that are too long
ProgramImages ==
  {SubSeq(p, 1, len) : p \in Programs, len \in 0 .. MaxLen}
    \cup {Ramp(len, 1) : len \in Room .. Room + MaxOver}

\* ------------------------------------------------------------- actions

\* a freshly constructed machine in a build with or without overflow checks
Fresh(checks) ==
  /\ pc = CHIP8_new.pc
  /\ sp = CHIP8_new.sp
  /\ ix = CHIP8_new.ix
  /\ keypad = CHIP8_new.keypad
  /\ stack = CHIP8_new.stack
  /\ vx = CHIP8_new.vx
  /\ pages = CHIP8_new.pages
  /\ delay_timer = CHIP8_new.delay_timer
  /\ sound_timer = CHIP8_new.sound_timer
  /\ overflow_checks = checks
  /\ panicked = FALSE
  /\ last = Did("new", <<>>, TRUE, 0)
  /\ pre = Snapshot
  /\ nops = 0

\* The memory-level operations below do no arithmetic whose result depends on
\* the build profile, so one profile stands for both: the one tests run in.
Init == Fresh(TRUE)

\* a new machine replaces the old one
New ==
  /\ nops < MaxOps
  /\ pc' = CHIP8_new.pc
  /\ sp' = CHIP8_new.sp
  /\ ix' = CHIP8_new.ix
  /\ keypad' = CHIP8_new.keypad
  /\ stack' = CHIP8_new.stack
  /\ vx' = CHIP8_new.vx
  /\ pages' = CHIP8_new.pages
  /\ delay_timer' = CHIP8_new.delay_timer
  /\ sound_timer' = CHIP8_new.sound_timer
  /\ panicked' = FALSE
  /\ last' = Did("new", <<>>, TRUE, 0)
  /\ pre' = Snapshot
  /\ nops' = nops + 1
  /\ UNCHANGED overflow_checks

MemWrite ==
  \E a \in Addrs, v \in WriteVals :
    LET r == Memory_write(pages, a, v)
    IN /\ nops < MaxOps
       /\ ~panicked
       /\ pages' = r.pages
       /\ last' = Did("write", <<a, v>>, r.ok, 0)
       /\ pre' = Snapshot
       /\ nops' = nops + 1
       /\ UNCHANGED <<cpu, overflow_checks, panicked>>

MemRead ==
  \E a \in Addrs :
    LET r == Memory_read(pages, a)
    IN /\ nops < MaxOps
       /\ ~panicked
       /\ last' = Did("read", <<a>>, r.ok, r.val)
       /\ pre' = Snapshot
       /\ nops' = nops + 1
       /\ UNCHANGED <<cpu, pages, overflow_checks, panicked>>

Load ==
  \E data \in ProgramImages :
    LET r == load(pages, data)
    IN /\ nops < MaxOps
       /\ ~panicked
       /\ pages' = r.pages
       /\ panicked' = r.panicked
       /\ last' = Did("load", data, TRUE, 0)
       /\ pre' = Snapshot
       /\ nops' = nops + 1
       /\ UNCHANGED <<cpu, overflow_checks>>

Fetch ==
  LET r == fetch_opcode(pages, pc)
  IN /\ nops < MaxOps
     /\ ~panicked
     /\ panicked' = r.panicked
     /\ last' = Did("fetch", <<>>, TRUE, r.val)
     /\ pre' = Snapshot
     /\ nops' = nops + 1
     /\ UNCHANGED <<cpu, pages, overflow_checks>>

Next == New \/ MemWrite \/ MemRead \/ Load \/ Fetch

\* the memory-level operations on a freshly constructed machine
Spec == Init /\ [][Next]_vars

\* ------------------------------------------------------------- instruction handlers
\* Each handler is an action on the CPU fields and the panic flag alone.

\* an index outside the array, or a checked overflow, panics where it stands
Abort == panicked' = TRUE /\ UNCHANGED <<pc, sp, ix, stack, vx>>

\* self.pc = self.pc + k on a u16: panics under overflow checks, wraps without
pc_add(k) ==
  IF pc + k > 65535 /\ overflow_checks
    THEN pc' = pc /\ panicked' = TRUE
    ELSE pc' = U16(pc + k) /\ panicked' = FALSE

pc_keep == pc' = pc /\ panicked' = FALSE

\* chip8.rs:135
op_00e0 == pc_keep /\ UNCHANGED <<sp, ix, stack, vx>>

\* chip8.rs:138-141: sp -= 1 panics under overflow checks when sp = 0, and wraps
\* to 255 without them, where stack[255] panics
op_00ee ==
  IF sp = 0 /\ overflow_checks
    THEN Abort
    ELSE LET s == U8(sp + 256 - 1)
         IN /\ sp' = s
            /\ IF s \in DOMAIN stack
                 THEN pc' = stack[s] /\ panicked' = FALSE
                 ELSE pc' = pc /\ panicked' = TRUE
            /\ UNCHANGED <<ix, stack, vx>>

\* chip8.rs:144-146
op_1nnn(nnn) == pc' = nnn /\ panicked' = FALSE /\ UNCHANGED <<sp, ix, stack, vx>>

\* chip8.rs:149-158: the stack pointer moves first, then pc + 2 is computed and
\* stored at stack[sp], then pc is set
op_2nnn(nnn) ==
  IF sp + 1 > 255 /\ overflow_checks
    THEN Abort
    ELSE LET s == U8(sp + 1)
             overflows == pc + 2 > 65535 /\ overflow_checks
         IN /\ sp' = s
            /\ IF overflows \/ s \notin DOMAIN stack
                 THEN pc' = pc /\ stack' = stack /\ panicked' = TRUE
                 ELSE /\ stack' = [stack EXCEPT ![s] = U16(pc + 2)]
                      /\ pc' = nnn
                      /\ panicked' = FALSE
            /\ UNCHANGED <<ix, vx>>

\* the conditional skips of chip8.rs:161-179 and 257-259: pc + 4 when the
\* condition holds, nothing otherwise
skip_if(cond) ==
  /\ IF cond THEN pc_add(4) ELSE pc_keep
  /\ UNCHANGED <<sp, ix, stack, vx>>

\* chip8.rs:161-165
op_3xkk(x, kk) == IF x \notin DOMAIN vx THEN Abort ELSE skip_if(vx[x] = kk)

\* chip8.rs:168-172
op_4xkk(x, kk) == IF x \notin DOMAIN vx THEN Abort ELSE skip_if(vx[x] # kk)

\* chip8.rs:175-179
op_5xy0(x, y) ==
  IF x \notin DOMAIN vx \/ y \notin DOMAIN vx THEN Abort ELSE skip_if(vx[x] = vx[y])

\* chip8.rs:257-259
op_9xy0(x, y) ==
  IF x \notin DOMAIN vx \/ y \notin DOMAIN vx THEN Abort ELSE skip_if(vx[x] # vx[y])

\* the register file becomes regs, then pc advances by 2
set_regs(regs) == vx' = regs /\ pc_add(2) /\ UNCHANGED <<sp, ix, stack>>

\* chip8.rs:182-185
op_6xkk(x, kk) ==
  IF x \notin DOMAIN vx THEN Abort ELSE set_regs([vx EXCEPT ![x] = kk])

\* chip8.rs:188-191: a bitwise OR
op_7xkk(x, kk) ==
  IF x \notin DOMAIN vx THEN Abort ELSE set_regs([vx EXCEPT ![x] = BitOr(vx[x], kk)])

\* chip8.rs:194-197
op_8xy0(x, y) ==
  IF x \notin DOMAIN vx \/ y \notin DOMAIN vx THEN Abort
  ELSE set_regs([vx EXCEPT ![x] = vx[y]])

\* chip8.rs:200-203
op_8xy1(x, y) ==
  IF x \notin DOMAIN vx \/ y \notin DOMAIN vx THEN Abort
  ELSE set_regs([vx EXCEPT ![x] = BitOr(vx[x], vx[y])])

\* chip8.rs:206-209
op_8xy2(x, y) ==
  IF x \notin DOMAIN vx \/ y \notin DOMAIN vx THEN Abort
  ELSE set_regs([vx EXCEPT ![x] = BitAnd(vx[x], vx[y])])

\* chip8.rs:212-215
op_8xy3(x, y) ==
  IF x \notin DOMAIN vx \/ y \notin DOMAIN vx THEN Abort
  ELSE set_regs([vx EXCEPT ![x] = BitXor(vx[x], vx[y])])

\* chip8.rs:219-224: VF is written before Vx
op_8xy4(x, y) ==
  IF x \notin DOMAIN vx \/ y \notin DOMAIN vx THEN Abort
  ELSE LET sum == vx[x] + vx[y]
           flagged == [vx EXCEPT ![15] = IF sum > 255 THEN 1 ELSE 0]
       IN set_regs([flagged EXCEPT ![x] = U8(sum)])

\* chip8.rs:228-232: VF is written first, and the subtraction reads the
\* registers after that write
op_8xy5(x, y) ==
  IF x \notin DOMAIN vx \/ y \notin DOMAIN vx THEN Abort
  ELSE LET flagged == [vx EXCEPT ![15] = IF vx[x] > vx[y] THEN 1 ELSE 0]
       IN set_regs([flagged EXCEPT ![x] = U8(flagged[x] + 256 - flagged[y])])

\* chip8.rs:235-239: the flag is Vx & 0b10000000, then Vx >>= 1
op_8xy6(x) ==
  IF x \notin DOMAIN vx THEN Abort
  ELSE LET flagged == [vx EXCEPT ![15] = BitAnd(vx[x], 128)]
       IN set_regs([flagged EXCEPT ![x] = flagged[x] \div 2])

\* chip8.rs:243-247
op_8xy7(x, y) ==
  IF x \notin DOMAIN vx \/ y \notin DOMAIN vx THEN Abort
  ELSE LET flagged == [vx EXCEPT ![15] = IF vx[y] > vx[x] THEN 1 ELSE 0]
       IN set_regs([flagged EXCEPT ![x] = U8(flagged[y] + 256 - flagged[x])])

\* chip8.rs:250-254: the same body as op_8xy6
op_8xye(x) ==
  IF x \notin DOMAIN vx THEN Abort
  ELSE LET flagged == [vx EXCEPT ![15] = BitAnd(vx[x], 128)]
       IN set_regs([flagged EXCEPT ![x] = flagged[x] \div 2])

\* chip8.rs:262-264: nnn is a u8 and so is ix
op_annn(nnn) == ix' = nnn /\ pc_keep /\ UNCHANGED <<sp, stack, vx>>

\* chip8.rs:267-269: nnn + V0 is a u8 sum
op_bnnn(nnn) ==
  /\ IF nnn + vx[0] > 255 /\ overflow_checks
       THEN pc' = pc /\ panicked' = TRUE
       ELSE pc' = U8(nnn + vx[0]) /\ panicked' = FALSE
  /\ UNCHANGED <<sp, ix, stack, vx>>

\* the bytes the random number generator is taken to return
RandBytes == {0, 90, 165, 255}

\* chip8.rs:272-275
op_cxkk(x, kk) ==
  IF x \notin DOMAIN vx THEN Abort
  ELSE \E r \in RandBytes :
         /\ vx' = [vx EXCEPT ![x] = BitAnd(r, kk)]
         /\ pc_keep
         /\ UNCHANGED <<sp, ix, stack>>

\* chip8.rs:87-132.  The arms of the outer match are the literals 0x000, 0x100,
\* ..., 0xc00, and those of the 0x800 family 0x800 .. 0x80E, as written.
execute_opcode(opcode) ==
  LET ins == BitAnd(opcode, 61440)
      nnn == U8(BitAnd(opcode, 4095))
      kk == U8(BitAnd(opcode, 255))
      x == U8(BitAnd(opcode, 3840))
      y == U8(BitAnd(opcode, 240))
      low == BitAnd(opcode, 15)
      nothing == pc_keep /\ UNCHANGED <<sp, ix, stack, vx>>
  IN CASE ins = 0 ->
            (CASE low = 0 -> op_00e0
               [] low = 14 -> op_00ee
               [] OTHER -> nothing)
       [] ins = 256 -> op_1nnn(nnn)
       [] ins = 512 -> op_2nnn(nnn)
       [] ins = 768 -> op_3xkk(x, kk)
       [] ins = 1024 -> op_4xkk(x, kk)
       [] ins = 1280 -> op_5xy0(x, y)
       [] ins = 1536 -> op_6xkk(x, kk)
       [] ins = 1792 -> op_7xkk(x, kk)
       [] ins = 2048 ->
            (CASE low = 2048 -> op_8xy0(x, y)
               [] low = 2049 -> op_8xy1(x, y)
               [] low = 2050 -> op_8xy2(x, y)
               [] low = 2051 -> op_8xy3(x, y)
               [] low = 2052 -> op_8xy4(x, y)
               [] low = 2053 -> op_8xy5(x, y)
               [] low = 2054 -> op_8xy6(x)
               [] low = 2055 -> op_8xy7(x, y)
               [] low = 2062 -> op_8xye(x)
               [] OTHER -> nothing)
       [] ins = 2304 -> op_9xy0(x, y)
       [] ins = 2560 -> op_annn(nnn)
       [] ins = 2816 -> op_bnnn(nnn)
       [] ins = 3072 -> op_cxkk(x, kk)
       [] OTHER -> nothing

\* ------------------------------------------------------------- handler inputs

\* register indices handed to the handlers (u8): three registers, the flag
\* register among them, and one index past the register file
RegArgs == {0, 1, 15, 16}
\* immediate bytes and register contents
ByteVals == {0, 1, 2, 128, 255}
\* contents of VF
FlagVals == {1, 255}
\* the address operand as the handlers receive it (u8)
Targets == {0, 16, 255}
\* program counters: the fresh one, the last byte of memory and the last even u16
PCS == {0, 4095, 65534}
\* opcodes handed to execute_opcode: 0x0000, 0x0001, 0x00E0, 0x00EE, 0x0120,
\* 0x012E, 0x1234, 0x2110, 0x5001, 0x6005, 0x6105, 0x7003, 0x8008, 0x8010,
\* 0x8014, 0xA000, 0xA123, 0xB000, 0xB234, 0xD011, 0xF00A
Opcodes == {0, 1, 224, 238, 288, 302, 4660, 8464, 20481, 24581, 24837, 28675,
            32776, 32784, 32788, 40960, 41251, 45056, 45620, 53265, 61450}

RegFiles ==
  {[r \in 0 .. 15 |-> CASE r = 0 -> v0 [] r = 1 -> v1 [] r = 15 -> vf [] OTHER -> 0] :
     v0 \in ByteVals, v1 \in ByteVals, vf \in FlagVals}

\* ------------------------------------------------------------- handler actions

\* a handler runs on a machine that has not panicked; the ghost variables
\* record it and the fields it found
Invoke(op, args, body) ==
  /\ ~panicked
  /\ body
  /\ last' = Did(op, args, TRUE, 0)
  /\ pre' = Snapshot
  /\ UNCHANGED <<pages, keypad, delay_timer, sound_timer, overflow_checks>>

\* a machine some run of handlers has left: any of the program counters and
\* register files above, reached by op_1nnn, op_6xkk and the pc + 2 of the
\* handlers
InitCpu ==
  /\ pc \in PCS
  /\ sp = CHIP8_new.sp
  /\ ix = CHIP8_new.ix
  /\ keypad = CHIP8_new.keypad
  /\ stack = CHIP8_new.stack
  /\ vx \in RegFiles
  /\ pages = CHIP8_new.pages
  /\ delay_timer = CHIP8_new.delay_timer
  /\ sound_timer = CHIP8_new.sound_timer
  /\ overflow_checks \in BOOLEAN
  /\ panicked = FALSE
  /\ last = Did("init", <<>>, TRUE, 0)
  /\ pre = Snapshot
  /\ nops = 0

\* the machine drawn by InitCpu, before any handler has run on it
Drawn == last.op = "init"

\* one handler applied to it
Once(op, args, body) == Invoke(op, args, body) /\ nops' = nops + 1

Do_00e0 == Drawn /\ Once("00e0", <<>>, op_00e0)
Do_00ee == Drawn /\ Once("00ee", <<>>, op_00ee)
Do_1nnn == Drawn /\ \E nnn \in Targets : Once("1nnn", <<nnn>>, op_1nnn(nnn))
Do_2nnn == Drawn /\ \E nnn \in Targets : Once("2nnn", <<nnn>>, op_2nnn(nnn))
Do_3xkk == Drawn /\ \E x \in RegArgs, kk \in ByteVals : Once("3xkk", <<x, kk>>, op_3xkk(x, kk))
Do_4xkk == Drawn /\ \E x \in RegArgs, kk \in ByteVals : Once("4xkk", <<x, kk>>, op_4xkk(x, kk))
Do_5xy0 == Drawn /\ \E x \in RegArgs, y \in RegArgs : Once("5xy0", <<x, y>>, op_5xy0(x, y))
Do_6xkk == Drawn /\ \E x \in RegArgs, kk \in ByteVals : Once("6xkk", <<x, kk>>, op_6xkk(x, kk))
Do_7xkk == Drawn /\ \E x \in RegArgs, kk \in ByteVals : Once("7xkk", <<x, kk>>, op_7xkk(x, kk))
Do_8xy0 == Drawn /\ \E x \in RegArgs, y \in RegArgs : Once("8xy0", <<x, y>>, op_8xy0(x, y))
Do_8xy1 == Drawn /\ \E x \in RegArgs, y \in RegArgs : Once("8xy1", <<x, y>>, op_8xy1(x, y))
Do_8xy2 == Drawn /\ \E x \in RegArgs, y \in RegArgs : Once("8xy2", <<x, y>>, op_8xy2(x, y))
Do_8xy3 == Drawn /\ \E x \in RegArgs, y \in RegArgs : Once("8xy3", <<x, y>>, op_8xy3(x, y))
Do_8xy4 == Drawn /\ \E x \in RegArgs, y \in RegArgs : Once("8xy4", <<x, y>>, op_8xy4(x, y))
Do_8xy5 == Drawn /\ \E x \in RegArgs, y \in RegArgs : Once("8xy5", <<x, y>>, op_8xy5(x, y))
Do_8xy6 == Drawn /\ \E x \in RegArgs : Once("8xy6", <<x>>, op_8xy6(x))
Do_8xy7 == Drawn /\ \E x \in RegArgs, y \in RegArgs : Once("8xy7", <<x, y>>, op_8xy7(x, y))
Do_8xye == Drawn /\ \E x \in RegArgs : Once("8xye", <<x>>, op_8xye(x))
Do_9xy0 == Drawn /\ \E x \in RegArgs, y \in RegArgs : Once("9xy0", <<x, y>>, op_9xy0(x, y))
Do_annn == Drawn /\ \E nnn \in Targets : Once("annn", <<nnn>>, op_annn(nnn))
Do_bnnn == Drawn /\ \E nnn \in Targets : Once("bnnn", <<nnn>>, op_bnnn(nnn))
Do_cxkk == Drawn /\ \E x \in RegArgs, kk \in ByteVals : Once("cxkk", <<x, kk>>, op_cxkk(x, kk))
Execute == Drawn /\ \E opcode \in Opcodes : Once("execute", <<opcode>>, execute_opcode(opcode))

NextCpu ==
  \/ Do_00e0 \/ Do_00ee \/ Do_1nnn \/ Do_2nnn \/ Do_3xkk \/ Do_4xkk \/ Do_5xy0
  \/ Do_6xkk \/ Do_7xkk \/ Do_8xy0 \/ Do_8xy1 \/ Do_8xy2 \/ Do_8xy3 \/ Do_8xy4
  \/ Do_8xy5 \/ Do_8xy6 \/ Do_8xy7 \/ Do_8xye \/ Do_9xy0 \/ Do_annn \/ Do_bnnn
  \/ Do_cxkk \/ Execute

\* the instruction handlers, each applied to a machine drawn by InitCpu
SpecCpu == InitCpu /\ [][NextCpu]_vars

\* ------------------------------------------------------------- calls and returns

\* the address operand of the calls
CallTargets == {16}

Call == \E nnn \in CallTargets : Invoke("2nnn", <<nnn>>, op_2nnn(nnn)) /\ UNCHANGED nops

Return ==
  /\ nops < MaxReturns
  /\ Invoke("00ee", <<>>, op_00ee)
  /\ nops' = nops + 1

NextStack == Call \/ Return

InitStack == \E checks \in BOOLEAN : Fresh(checks)

\* calls and returns on a freshly constructed machine, in either build profile
SpecStack == InitStack /\ [][NextStack]_vars

\* ------------------------------------------------------------- opcode fetch

\* program counters the fetch is tried at: the fresh one, inside the font, the
\* loaded program, the last two bytes of memory, the first address past it
\* and the largest u16
FetchPCS == {0, 78, 512, 4094, 4095, 4096, 65535}

\* a machine with a program loaded, its program counter and registers left
\* anywhere by the handlers
InitFetch ==
  /\ pc \in FetchPCS
  /\ sp = CHIP8_new.sp
  /\ ix = CHIP8_new.ix
  /\ keypad = CHIP8_new.keypad
  /\ stack = CHIP8_new.stack
  /\ vx \in RegFiles
  /\ pages = load(CHIP8_new.pages, Ramp(Room, 1)).pages
  /\ delay_timer = CHIP8_new.delay_timer
  /\ sound_timer = CHIP8_new.sound_timer
  /\ overflow_checks \in BOOLEAN
  /\ panicked = FALSE
  /\ last = Did("load", Ramp(Room, 1), TRUE, 0)
  /\ pre = Snapshot
  /\ nops = 0

\* fetches, one after the other, wherever the program counter stands
SpecFetch == InitFetch /\ [][Fetch]_vars

\* ------------------------------------------------------------- the key wait

\* steps taken in the key-wait specification
MaxSteps == 2

\* the keys the input collaborator presses
Keys == {0, 3, 7, 15}

\* the instruction cycle: the opcode fetch_opcode returns is handed to
\* execute_opcode
Step ==
  LET r == fetch_opcode(pages, pc)
  IN /\ nops < MaxSteps
     /\ ~panicked
     /\ IF r.panicked THEN Abort ELSE execute_opcode(r.val)
     /\ last' = Did("step", <<>>, TRUE, r.val)
     /\ pre' = Snapshot
     /\ nops' = nops + 1
     /\ UNCHANGED <<pages, keypad, delay_timer, sound_timer, overflow_checks>>

\* CHIP8.keypad: the entry of key k becomes nonzero; no method of CHIP8
\* writes the keypad
PressKey ==
  \E k \in Keys :
    /\ ~panicked
    /\ keypad' = [keypad EXCEPT ![k] = 1]
    /\ last' = Did("press", <<k>>, TRUE, 0)
    /\ pre' = Snapshot
    /\ UNCHANGED <<pc, sp, ix, stack, vx, pages, delay_timer, sound_timer,
                   overflow_checks, panicked, nops>>

NextKey == Step \/ PressKey

\* a fresh machine after write(1, 0x0A): with the font byte 0xF0 at address 0
\* the instruction at the fresh program counter is 0xF00A
InitKey ==
  /\ pc = CHIP8_new.pc
  /\ sp = CHIP8_new.sp
  /\ ix = CHIP8_new.ix
  /\ keypad = CHIP8_new.keypad
  /\ stack = CHIP8_new.stack
  /\ vx = CHIP8_new.vx
  /\ pages = Memory_write(CHIP8_new.pages, 1, 10).pages
  /\ delay_timer = CHIP8_new.delay_timer
  /\ sound_timer = CHIP8_new.sound_timer
  /\ overflow_checks \in BOOLEAN
  /\ panicked = FALSE
  /\ last = Did("write", <<1, 10>>, TRUE, 0)
  /\ pre = Snapshot
  /\ nops = 0

\* steps at an Fx0A instruction while keys get pressed
SpecKey == InitKey /\ [][NextKey]_vars

\* ------------------------------------------------------------- Memory and loader properties

\* C1: a write to an address in [0,4095] succeeds and a read of that address
\* then returns the byte written; a write or a read of an address above 4095
\* returns the address error and no value.
C1_WriteThenRead ==
  /\ (last.op = "write" /\ last.args[1] <= 4095) =>
       /\ last.ok
       /\ Memory_read(pages, last.args[1]) = [ok |-> TRUE, val |-> last.args[2]]
  /\ (last.op = "write" /\ last.args[1] > 4095) => ~last.ok
  /\ (last.op = "read" /\ last.args[1] <= 4095) =>
       last.ok /\ last.val = pages[last.args[1]]
  /\ (last.op = "read" /\ last.args[1] > 4095) => ~last.ok

C1_Witness ==
  /\ last.op = "write" /\ last.args = <<4095, 171>>
  /\ last.ok /\ pages[4095] = 171

\* C2: right after construction bytes 0..79 hold the font, glyph d at
\* 5*d .. 5*d+4 in the order 0-9, A-F, and bytes 80..4095 are zero.
C2_FontThenZeros ==
  last.op = "new" =>
    /\ DOMAIN pages = 0 .. 4095
    /\ \A d \in 0 .. 15 : \A j \in 0 .. 4 : pages[5 * d + j] = SPRITES[5 * d + j + 1]
    /\ <<pages[5], pages[6], pages[7], pages[8], pages[9]>> = <<32, 96, 32, 32, 112>>
    /\ <<pages[75], pages[76], pages[77], pages[78], pages[79]>> = <<240, 128, 240, 128, 128>>
    /\ \A a \in 80 .. 4095 : pages[a] = 0

C2_Witness == last.op = "new" /\ nops = 2 /\ pages[79] = 128 /\ pages[80] = 0

\* C3: after load(data) with 0x200 + len(data) <= 4096, a read of 0x200 + i
\* returns data[i] for every index i of data.
C3_LoadedBytesReadBack ==
  (last.op = "load" /\ 512 + Len(last.args) <= 4096) =>
    \A i \in 0 .. Len(last.args) - 1 :
      Memory_read(pages, 512 + i) = [ok |-> TRUE, val |-> last.args[i + 1]]

C3_Witness ==
  /\ last.op = "load" /\ Len(last.args) = 3584
  /\ pages[4095] = last.args[3584] /\ pages[4095] # 0

\* C4: load of a sequence longer than 4096 - 0x200 bytes is rejected with an
\* observable failure.
C4_OverlongLoadRejected ==
  (last.op = "load" /\ Len(last.args) > 4096 - 512) => (panicked \/ ~last.ok)

\* C5: load(data) changes no byte outside 0x200 .. 0x200 + len(data) - 1,
\* whatever the length of data and whatever was loaded before.
C5_LoadFrame ==
  [][last'.op = "load" =>
       /\ DOMAIN pages' = DOMAIN pages
       /\ \A a \in 0 .. 4095 :
            (a < 512 \/ a >= 512 + Len(last'.args)) => pages'[a] = pages[a]]_vars

C5_Witness ==
  /\ last.op = "load" /\ Len(last.args) = 1 /\ nops = 2
  /\ pages[513] = 171 /\ pages[512] = last.args[1]

\* C6: a fresh CPU has pc = 0x200, and after new and load(data) with at least
\* two bytes the first fetch returns data[0] * 256 + data[1].
C6_FreshPcAtProgramStart ==
  /\ last.op = "new" => pc = 512
  /\ (last.op = "load" /\ nops = 1 /\ Len(last.args) >= 2) =>
       fetch_opcode(pages, pc) =
         [panicked |-> FALSE, val |-> last.args[1] * 256 + last.args[2]]

\* ------------------------------------------------------------- handler properties

\* the handlers of the instructions that do not alter control flow
PlainHandlers ==
  {"00e0", "6xkk", "7xkk", "8xy0", "8xy1", "8xy2", "8xy3", "8xy4", "8xy5",
   "8xy6", "8xy7", "8xye", "annn", "cxkk"}

\* the handlers whose first argument is a register index, and those whose
\* second is one too
TakesX ==
  {"3xkk", "4xkk", "5xy0", "6xkk", "7xkk", "8xy0", "8xy1", "8xy2", "8xy3",
   "8xy4", "8xy5", "8xy6", "8xy7", "8xye", "9xy0", "cxkk"}
TakesY == {"5xy0", "8xy0", "8xy1", "8xy2", "8xy3", "8xy4", "8xy5", "8xy7", "9xy0"}

\* the last handler was handed register indices in 0..15
RegistersExist ==
  /\ last.op \in TakesX => last.args[1] \in 0 .. 15
  /\ last.op \in TakesY => last.args[2] \in 0 .. 15

\* C7: every handler of an instruction that does not alter control flow,
\* started with pc = p (p + 2 a valid u16), ends with pc = p + 2.
C7_PlainHandlersAdvancePcByTwo ==
  (last.op \in PlainHandlers /\ RegistersExist /\ pre.pc + 2 <= 65535) =>
    (~panicked /\ pc = pre.pc + 2)

\* C8: from the empty stack of a fresh CPU the first 16 calls in a row succeed
\* and record their return addresses, the 17th fails with StackOverflow, and
\* a return on the empty stack fails with StackUnderflow; a failure is an
\* error outcome, not a panic.
C8_SixteenCallsThenOverflow ==
  /\ (last.op = "2nnn" /\ nops = 0 /\ pre.sp < 16) =>
       /\ ~panicked /\ last.ok
       /\ sp = pre.sp + 1
       /\ \E s \in DOMAIN stack : stack[s] = pre.pc + 2
  /\ (last.op = "2nnn" /\ nops = 0 /\ pre.sp >= 16) => (~panicked /\ ~last.ok)
  /\ (last.op = "00ee" /\ pre.sp = 0) => (~panicked /\ ~last.ok)

\* C9: after 8xy4 with x and y in 0..15, VF is 1 if the old Vx + Vy exceeded
\* 255 and 0 otherwise, also when x or y is 0xF, and for x other than 0xF
\* Vx is the old (Vx + Vy) mod 256.
C9_AddCarry ==
  (last.op = "8xy4" /\ RegistersExist /\ ~panicked) =>
    LET x == last.args[1]
        y == last.args[2]
        sum == pre.vx[x] + pre.vx[y]
    IN /\ vx[15] = IF sum > 255 THEN 1 ELSE 0
       /\ x # 15 => vx[x] = sum % 256

\* C10: after 8xy5 with x and y other than 0xF, Vx is the old (Vx - Vy) mod 256
\* and VF is 1 exactly when the old Vx >= Vy; after 8xy7, Vx is the old
\* (Vy - Vx) mod 256 and VF is 1 exactly when the old Vy >= Vx.
C10_SubNoBorrow ==
  /\ (last.op = "8xy5" /\ last.args[1] \in 0 .. 14 /\ last.args[2] \in 0 .. 14
        /\ ~panicked) =>
       LET a == pre.vx[last.args[1]]
           b == pre.vx[last.args[2]]
       IN /\ vx[last.args[1]] = (a - b) % 256
          /\ vx[15] = IF a >= b THEN 1 ELSE 0
  /\ (last.op = "8xy7" /\ last.args[1] \in 0 .. 14 /\ last.args[2] \in 0 .. 14
        /\ ~panicked) =>
       LET a == pre.vx[last.args[1]]
           b == pre.vx[last.args[2]]
       IN /\ vx[last.args[1]] = (b - a) % 256
          /\ vx[15] = IF b >= a THEN 1 ELSE 0

\* C11: for every register index x and every kk the 7xkk handler sets Vx to
\* (Vx + kk) mod 256, a wrapping arithmetic addition, and changes no other
\* register (so 6x05 followed by 7x03 leaves Vx = 8).
C11_AddImmediate ==
  (last.op = "7xkk" /\ RegistersExist /\ ~panicked) =>
    LET x == last.args[1]
        kk == last.args[2]
    IN /\ vx[x] = (pre.vx[x] + kk) % 256
       /\ \A r \in 0 .. 15 : r # x => vx[r] = pre.vx[r]

\* C13: execute_opcode selects the handler by the top nibble of the opcode and
\* hands it x = bits 8-11, y = bits 4-7, kk = the low byte: executing
\* 0x6000 + 256*x + kk leaves Vx = kk, and 0x8000 + 256*x + 16*y leaves Vx = Vy.
C13_DispatchFields ==
  last.op = "execute" =>
    LET opcode == last.args[1]
        top == opcode \div 4096
        x == (opcode \div 256) % 16
        y == (opcode \div 16) % 16
        kk == opcode % 256
    IN /\ top = 6 => (~panicked /\ vx[x] = kk)
       /\ (top = 8 /\ opcode % 16 = 0) => (~panicked /\ vx[x] = pre.vx[y])

\* opcodes that match no instruction pattern: 0x0001, 0x0120, 0x012E, 0x5001,
\* 0x8008
UnknownOpcodes == {1, 288, 302, 20481, 32776}

\* C14: executing an opcode that matches no instruction pattern gives an
\* UnknownOpcode error outcome; it is not ignored and not run as another
\* instruction (0x012E is not a return: the stack stays as it was).
C14_UnknownOpcodeIsAnError ==
  (last.op = "execute" /\ last.args[1] \in UnknownOpcodes) =>
    /\ ~panicked
    /\ ~last.ok
    /\ sp = pre.sp /\ stack = pre.stack

\* the conditional skips
SkipHandlers == {"3xkk", "4xkk", "5xy0", "9xy0"}

\* C15: a conditional skip started at pc = p with register indices in 0..15
\* ends with pc = p + 4 when its condition holds (Vx = kk, Vx # kk, Vx = Vy,
\* Vx # Vy) and with pc = p + 2 when it does not, never with pc = p, and
\* changes no register.
C15_SkipOrStep ==
  (last.op \in SkipHandlers /\ RegistersExist /\ pre.pc + 4 <= 65535) =>
    LET a == pre.vx[last.args[1]]
        b == IF last.op \in {"3xkk", "4xkk"}
               THEN last.args[2] ELSE pre.vx[last.args[2]]
        cond == IF last.op \in {"3xkk", "5xy0"} THEN a = b ELSE a # b
    IN /\ ~panicked
       /\ pc = pre.pc + (IF cond THEN 4 ELSE 2)
       /\ vx = pre.vx

\* C18: for x other than 0xF, after 8xy6 VF is the least-significant bit of
\* the old Vx and Vx is the old Vx shifted right by one; after 8xyE VF is the
\* most-significant bit of the old Vx and Vx is (old Vx * 2) mod 256.
C18_Shifts ==
  /\ (last.op = "8xy6" /\ last.args[1] \in 0 .. 14 /\ ~panicked) =>
       LET old == pre.vx[last.args[1]]
       IN vx[15] = old % 2 /\ vx[last.args[1]] = old \div 2
  /\ (last.op = "8xye" /\ last.args[1] \in 0 .. 14 /\ ~panicked) =>
       LET old == pre.vx[last.args[1]]
       IN vx[15] = old \div 128 /\ vx[last.args[1]] = (old * 2) % 256

\* C19: the 12-bit address operand is not truncated: executing Annn leaves the
\* index register equal to nnn, 1nnn leaves pc equal to nnn, and Bnnn leaves
\* pc equal to nnn + V0, without failing above 255.
C19_AddressOperandKept ==
  last.op = "execute" =>
    LET opcode == last.args[1]
        top == opcode \div 4096
        nnn == opcode % 4096
    IN /\ top = 10 => (~panicked /\ ix = nnn)
       /\ top = 1 => (~panicked /\ pc = nnn)
       /\ top = 11 => (~panicked /\ pc = nnn + pre.vx[0])

\* ------------------------------------------------------------- call and return properties

\* C16: calls and returns are last-in-first-out; in particular a 2nnn executed
\* at pc = p and immediately followed by 00EE leaves pc = p + 2 and the stack
\* depth as it was before the call.
C16_CallThenReturn ==
  [][(last.op = "2nnn" /\ ~panicked /\ last'.op = "00ee") =>
       (~panicked' /\ pc' = pre.pc + 2 /\ sp' = pre.sp)]_vars

\* C17: a call that fails on a full stack, or a return that fails on an empty
\* one, leaves the stack pointer, every stack slot, pc and all registers as
\* they were before the instruction.
C17_FailureLeavesStateAlone ==
  ((last.op = "2nnn" /\ panicked) \/ (last.op = "00ee" /\ pre.sp = 0)) =>
    Snapshot = pre

\* ------------------------------------------------------------- fetch and step properties

\* C20: with pc and pc + 1 both in [0,4095], fetch_opcode returns
\* memory[pc] * 256 + memory[pc + 1] and changes neither pc, registers nor
\* stack; with pc or pc + 1 outside [0,4095] the fetch is an address error
\* outcome, not an abort.
C20_FetchBigEndianOrError ==
  last.op = "fetch" =>
    /\ Snapshot = pre
    /\ IF pre.pc + 1 <= 4095
         THEN ~panicked /\ last.val = pages[pre.pc] * 256 + pages[pre.pc + 1]
         ELSE ~panicked /\ ~last.ok

\* C12: a step at an Fx0A instruction with no key pressed leaves pc and the
\* registers unchanged, however often it is repeated; once a key k is
\* pressed, the next step stores k in Vx and moves pc past the instruction.
C12_KeyWait ==
  (last.op = "step" /\ last.val \div 4096 = 15 /\ last.val % 256 = 10) =>
    LET x == (last.val \div 256) % 16
        pressed == {k \in DOMAIN keypad : keypad[k] # 0}
    IN /\ ~panicked
       /\ IF pressed = {}
            THEN pc = pre.pc /\ vx = pre.vx
            ELSE pc = pre.pc + 2 /\ vx[x] \in pressed

====
